---- MODULE Spec2Model ----
(***************************************************************************)
(* Model of src/basic_cleaning/run.py: the function go(args), which        *)
(* downloads a CSV artifact, filters it by price and by the NYC            *)
(* geo-bounds, parses last_review, drops rows with missing key columns,    *)
(* writes clean_sample.csv and logs it as a new artifact.                  *)
(*                                                                         *)
(* Numbers are fixed-point, in hundredths (10.0 is 1000, -74.25 is -7425). *)
(* A CSV file is a header and rows of text tokens; a DataFrame is columns, *)
(* one dtype per column and rows of typed cells.  read_csv and to_csv are  *)
(* modelled by what pandas does to the text: dtype inference per column,   *)
(* float repr on output, ISO dates on output.                              *)
(***************************************************************************)
EXTENDS Integers, Sequences, FiniteSets, TLC

VARIABLES
    pc,          \* the statement of go that runs next
    args,        \* the parsed command line
    store,       \* what the artifact store answers for args.input_artifact
    inputFile,   \* the CSV file behind the input artifact
    config,      \* run.config
    df,          \* the DataFrame
    written,     \* clean_sample.csv was written by this run
    outFile,     \* the contents of clean_sample.csv
    artifacts,   \* the artifacts this run has logged
    error,       \* the exception that ended the run, "" if none
    runNo,       \* 1, or 2 for the run on the first run's output
    prevOut      \* clean_sample.csv as the first run left it

vars == <<pc, args, store, inputFile, config, df, written, outFile,
          artifacts, error, runNo, prevOut>>

\* Largest number of data rows of an input file.
MaxRows == 2

\* NYC geo-bounds of go, in hundredths of a degree.
LonMin == -7425
LonMax == -7350
LatMin == 4050
LatMax == 4120

-----------------------------------------------------------------------------
(* CSV text tokens *)

EmptyTok == [k |-> "empty", s |-> "", n |-> 0, f |-> <<>>]

\* A non-numeric field.  When s is a date format, the text is day number n
\* written in that format; any other text is no date.
Text(s, n) == [k |-> "text", s |-> s, n |-> n, f |-> <<>>]

\* A decimal literal: sign s ("" or "-"), integer part n, fraction digits f
\* (<<>> when the literal has no decimal point).
Dec(s, n, f) == [k |-> "dec", s |-> s, n |-> n, f |-> f]

IsoFormat == "%Y-%m-%d"
UsFormat == "%m/%d/%Y"
DateFormats == {IsoFormat, UsFormat}

(* DataFrame cells *)

NaN == [k |-> "nan", v |-> 0, tok |-> EmptyTok]
NaT == [k |-> "nat", v |-> 0, tok |-> EmptyTok]
Num(v) == [k |-> "num", v |-> v, tok |-> EmptyTok]
Str(tok) == [k |-> "str", v |-> 0, tok |-> tok]
Date(d) == [k |-> "date", v |-> d, tok |-> EmptyTok]

NoDf == [columns |-> <<>>, dtypes |-> <<>>, rows |-> <<>>]
NoFile == [header |-> <<>>, rows |-> <<>>]
NoConfig == [min_price |-> 0, max_price |-> 0, output_artifact |-> "",
             output_type |-> "", output_description |-> "", input_artifact |-> ""]

Range(s) == {s[i] : i \in DOMAIN s}

-----------------------------------------------------------------------------
(* pd.read_csv *)

\* float(text) of a decimal literal, in hundredths.
ParseFloat(tok) ==
    LET frac == IF Len(tok.f) = 0 THEN 0
                ELSE IF Len(tok.f) = 1 THEN tok.f[1] * 10
                ELSE tok.f[1] * 10 + tok.f[2]
        mag == tok.n * 100 + frac
    IN IF tok.s = "-" THEN 0 - mag ELSE mag

\* The dtype pandas infers for a column from its tokens.
InferDtype(toks) ==
    IF toks = <<>> THEN "object"
    ELSE IF \E i \in DOMAIN toks : toks[i].k = "text" THEN "object"
    ELSE IF \E i \in DOMAIN toks : toks[i].k = "empty" \/ toks[i].f # <<>>
         THEN "float64"
    ELSE "int64"

ParseCell(dtype, tok) ==
    IF tok.k = "empty" THEN NaN
    ELSE IF dtype = "object" THEN Str(tok)
    ELSE Num(ParseFloat(tok))

ColumnIndex(header, c) == CHOOSE i \in DOMAIN header : header[i] = c

read_csv(file) ==
    LET cols == Range(file.header)
        colToks(c) == [i \in DOMAIN file.rows |->
                          file.rows[i][ColumnIndex(file.header, c)]]
        dtypes == [c \in cols |-> InferDtype(colToks(c))]
    IN [columns |-> file.header,
        dtypes |-> dtypes,
        rows |-> [i \in DOMAIN file.rows |->
                    [c \in cols |->
                        ParseCell(dtypes[c],
                                  file.rows[i][ColumnIndex(file.header, c)])]]]

-----------------------------------------------------------------------------
(* Series.between, boolean-mask selection, dropna *)

\* between with the upper bound excluded.
between_exclusive(cell, left, right) ==
    cell.k = "num" /\ left <= cell.v /\ cell.v < right

\* between with a missing value taken as within the bounds.
between_nan_passes(cell, left, right) ==
    cell.k = "nan" \/ (cell.k = "num" /\ left <= cell.v /\ cell.v <= right)

\* (x >= left) & (x <= right) for one numeric or missing cell.
between(cell, left, right) ==
    cell.k = "num" /\ left <= cell.v /\ cell.v <= right

\* Comparing a str with a float raises TypeError.
CompareRaises(frame, c) ==
    \E i \in DOMAIN frame.rows : frame.rows[i][c].k = "str"

RECURSIVE MaskSelect(_, _)
MaskSelect(rows, mask) ==
    IF rows = <<>> THEN <<>>
    ELSE (IF Head(mask) THEN <<Head(rows)>> ELSE <<>>)
         \o MaskSelect(Tail(rows), Tail(mask))

IsNa(cell) == cell.k \in {"nan", "nat"}

\* key_cols without the coordinates.
key_cols_price_only(frame) ==
    {c \in {"price"} : c \in Range(frame.columns)}

key_cols(frame) ==
    {c \in {"price", "latitude", "longitude"} : c \in Range(frame.columns)}

dropna(frame, subset) ==
    [frame EXCEPT !.rows =
        MaskSelect(frame.rows,
                   [i \in DOMAIN frame.rows |->
                       \A c \in subset : ~IsNa(frame.rows[i][c])])]

-----------------------------------------------------------------------------
(* pd.to_datetime(errors="coerce") *)

\* errors="ignore": an element that does not parse is left as it is.
ParseDate_ignore(cell, fmt) ==
    CASE cell.k = "nan" -> NaT
      [] cell.k = "str" ->
            IF cell.tok.k = "text" /\ cell.tok.s \in DateFormats
               /\ (fmt = "" \/ cell.tok.s = fmt)
            THEN Date(cell.tok.n)
            ELSE cell

\* One element parsed with format fmt ("" parses each element on its own).
ParseDate(cell, fmt) ==
    CASE cell.k = "nan" -> NaT
      [] cell.k = "str" ->
            IF cell.tok.k = "text" /\ cell.tok.s \in DateFormats
               /\ (fmt = "" \/ cell.tok.s = fmt)
            THEN Date(cell.tok.n)
            ELSE NaT

\* The format guessed from the first non-null element; "" when none is
\* guessed, and then every element is parsed on its own.
GuessFormat(cells) ==
    LET idx == {i \in DOMAIN cells : cells[i].k # "nan"}
    IN IF idx = {} THEN ""
       ELSE LET first == cells[CHOOSE i \in idx : \A j \in idx : i <= j]
            IN IF first.k = "str" /\ first.tok.s \in DateFormats
               THEN first.tok.s ELSE ""

\* guess = TRUE: one format for the whole column (pandas 2 and later);
\* guess = FALSE: element by element (earlier versions).
to_datetime(cells, guess) ==
    LET fmt == IF guess THEN GuessFormat(cells) ELSE ""
    IN [i \in DOMAIN cells |-> ParseDate(cells[i], fmt)]

-----------------------------------------------------------------------------
(* DataFrame.to_csv *)

\* repr of a float given in hundredths: the shortest fraction, one digit
\* at least.
FloatRepr(v) ==
    LET mag == IF v < 0 THEN 0 - v ELSE v
        frac == mag % 100
    IN Dec(IF v < 0 THEN "-" ELSE "", mag \div 100,
           IF frac % 10 = 0 THEN <<frac \div 10>>
           ELSE <<frac \div 10, frac % 10>>)

IntRepr(v) ==
    LET mag == IF v < 0 THEN 0 - v ELSE v
    IN Dec(IF v < 0 THEN "-" ELSE "", mag \div 100, <<>>)

FormatCell(dtype, cell) ==
    CASE IsNa(cell) -> EmptyTok
      [] cell.k = "str" -> cell.tok
      [] cell.k = "date" -> Text(IsoFormat, cell.v)
      [] cell.k = "num" -> IF dtype = "int64" THEN IntRepr(cell.v)
                           ELSE FloatRepr(cell.v)

\* to_csv with index=True: the row labels as a first, unnamed column.
to_csv_index(frame) ==
    [header |-> <<"">> \o frame.columns,
     rows |-> [i \in DOMAIN frame.rows |->
                 <<IntRepr(i * 100)>> \o
                 [j \in DOMAIN frame.columns |->
                     FormatCell(frame.dtypes[frame.columns[j]],
                                frame.rows[i][frame.columns[j]])]]]

\* to_csv(index=False)
to_csv(frame) ==
    [header |-> frame.columns,
     rows |-> [i \in DOMAIN frame.rows |->
                 [j \in DOMAIN frame.columns |->
                     FormatCell(frame.dtypes[frame.columns[j]],
                                frame.rows[i][frame.columns[j]])]]]

-----------------------------------------------------------------------------
(* The inputs of a run *)

\* The headers of the input files: every key column present, one
\* coordinate only, no coordinate, no last_review, no price.
Headers ==
    { <<"price", "longitude", "latitude", "last_review">>,
      <<"latitude", "price">>,
      <<"price", "longitude">>,
      <<"last_review", "price">>,
      <<"price">>,
      <<"longitude", "latitude">> }

\* The fields a column may hold: missing, non-numeric, and numbers on and
\* off the bounds of go.
Fields(c) ==
    CASE c = "price" ->
            {EmptyTok, Text("abc", 0), Dec("", 10, <<>>), Dec("", 100, <<>>)}
      [] c = "longitude" ->
            {EmptyTok, Text("abc", 0), Dec("-", 73, <<5, 0>>),
             Dec("-", 74, <<2, 5>>), Dec("-", 74, <<2, 6>>)}
      [] c = "latitude" ->
            {EmptyTok, Text("abc", 0), Dec("", 40, <<5, 0>>),
             Dec("", 41, <<2>>), Dec("", 41, <<2, 1>>)}
      [] c = "last_review" ->
            {EmptyTok, Text("junk", 0), Text(IsoFormat, 1), Text(UsFormat, 2)}

\* A row with every field well-formed and inside the bounds.
GoodField(c) ==
    CASE c = "price" -> Dec("", 10, <<>>)
      [] c = "longitude" -> Dec("-", 73, <<5, 0>>)
      [] c = "latitude" -> Dec("", 40, <<5, 0>>)
      [] c = "last_review" -> Text(IsoFormat, 1)

\* The rows of the input files under header h: the good row, the good row
\* with one field changed, and the good row with a price of 100 and a
\* non-numeric coordinate.
RowPool(h) ==
    LET good == [i \in DOMAIN h |-> GoodField(h[i])]
        one == UNION {{[good EXCEPT ![i] = t] : t \in Fields(h[i])} : i \in DOMAIN h}
        two == {[[good EXCEPT ![i] = Dec("", 100, <<>>)] EXCEPT ![j] = Text("abc", 0)] :
                   i \in {x \in DOMAIN h : h[x] = "price"},
                   j \in {x \in DOMAIN h : h[x] \in {"longitude", "latitude"}}}
    IN one \cup two

InputFiles ==
    UNION {{[header |-> h, rows |-> rs] :
               rs \in UNION {[1..k -> RowPool(h)] : k \in 0..MaxRows}} :
           h \in Headers}

\* min_price and max_price, in hundredths: 10.0 and 100.0.
PriceBounds == {1000, 10000}

Args ==
    {[input_artifact |-> "sample.csv:latest",
      output_artifact |-> "clean_sample.csv",
      output_type |-> "clean_sample",
      output_description |-> "Data with outliers and null values removed",
      min_price |-> lo, max_price |-> hi] : lo \in PriceBounds, hi \in PriceBounds}

\* artifact.file(): no path, a path that does not exist, a path that does.
StoreAnswers ==
    {[path |-> "", exists |-> FALSE],
     [path |-> "artifacts/sample.csv", exists |-> FALSE],
     [path |-> "artifacts/sample.csv", exists |-> TRUE]}

Init ==
    /\ pc = "init"
    /\ args \in Args
    /\ store \in StoreAnswers
    /\ inputFile \in InputFiles
    /\ config = NoConfig
    /\ df = NoDf
    /\ written = FALSE
    /\ outFile = NoFile
    /\ artifacts = <<>>
    /\ error = ""
    /\ runNo = 1
    /\ prevOut = NoFile

-----------------------------------------------------------------------------
(* The statements of go *)

HasColumn(frame, c) == c \in Range(frame.columns)

Column(frame, c) == [i \in DOMAIN frame.rows |-> frame.rows[i][c]]

\* The check without os.path.exists.
PathMissing_none_only(p) == p.path = ""

\* not local_path or not os.path.exists(local_path)
PathMissing(p) == p.path = "" \/ ~p.exists

Raise(e) ==
    /\ pc' = "failed"
    /\ error' = e

\* wandb.init, run.config.update, run.use_artifact, artifact.file and the
\* check of the path.
UseArtifact ==
    /\ pc = "init"
    /\ config' = args
    /\ IF PathMissing(store)
       THEN Raise("FileNotFoundError")
       ELSE pc' = "read_csv" /\ error' = error
    /\ UNCHANGED <<args, store, inputFile, df, written, outFile, artifacts,
                   runNo, prevOut>>

\* df = pd.read_csv(local_path)
ReadCsv ==
    /\ pc = "read_csv"
    /\ df' = read_csv(inputFile)
    /\ pc' = "price"
    /\ UNCHANGED <<args, store, inputFile, config, written, outFile, artifacts,
                   error, runNo, prevOut>>

\* df["price"].between(min_price, max_price)
PriceMask(frame, lo, hi) ==
    [i \in DOMAIN frame.rows |-> between(frame.rows[i]["price"], lo, hi)]

\* df = df[df["price"].between(args.min_price, args.max_price)].copy()
PriceFilter ==
    /\ pc = "price"
    /\ IF ~HasColumn(df, "price")
       THEN Raise("KeyError") /\ df' = df
       ELSE IF CompareRaises(df, "price")
       THEN Raise("TypeError") /\ df' = df
       ELSE /\ df' = [df EXCEPT !.rows =
                        MaskSelect(df.rows,
                                   PriceMask(df, args.min_price, args.max_price))]
            /\ pc' = "geo"
            /\ error' = error
    /\ UNCHANGED <<args, store, inputFile, config, written, outFile, artifacts,
                   runNo, prevOut>>

\* {"longitude", "latitude"}.issubset(df.columns)
GeoApplies(frame) == {"longitude", "latitude"} \subseteq Range(frame.columns)

\* lon_ok alone.
NycMask_lon_only(frame) ==
    [i \in DOMAIN frame.rows |->
        between(frame.rows[i]["longitude"], LonMin, LonMax)]

\* lon_ok & lat_ok
NycMask(frame) ==
    [i \in DOMAIN frame.rows |->
        /\ between(frame.rows[i]["longitude"], LonMin, LonMax)
        /\ between(frame.rows[i]["latitude"], LatMin, LatMax)]

GeoFilter ==
    /\ pc = "geo"
    /\ IF ~GeoApplies(df)
       THEN df' = df /\ pc' = "last_review" /\ error' = error
       ELSE IF CompareRaises(df, "longitude") \/ CompareRaises(df, "latitude")
       THEN Raise("TypeError") /\ df' = df
       ELSE /\ df' = [df EXCEPT !.rows = MaskSelect(df.rows, NycMask(df))]
            /\ pc' = "last_review"
            /\ error' = error
    /\ UNCHANGED <<args, store, inputFile, config, written, outFile, artifacts,
                   runNo, prevOut>>

\* df["last_review"] = pd.to_datetime(df["last_review"], errors="coerce")
SetLastReview(frame, parsed) ==
    [frame EXCEPT
        !.dtypes = [@ EXCEPT !["last_review"] = "datetime64"],
        !.rows = [i \in DOMAIN frame.rows |->
                    [frame.rows[i] EXCEPT !["last_review"] = parsed[i]]]]

ParseLastReview ==
    /\ pc = "last_review"
    /\ IF HasColumn(df, "last_review")
       THEN \E guess \in BOOLEAN :
               df' = SetLastReview(df, to_datetime(Column(df, "last_review"), guess))
       ELSE df' = df
    /\ pc' = "dropna"
    /\ UNCHANGED <<args, store, inputFile, config, written, outFile, artifacts,
                   error, runNo, prevOut>>

\* key_cols = [...]; if key_cols: df = df.dropna(subset=key_cols)
DropNa ==
    /\ pc = "dropna"
    /\ df' = IF key_cols(df) # {} THEN dropna(df, key_cols(df)) ELSE df
    /\ pc' = "to_csv"
    /\ UNCHANGED <<args, store, inputFile, config, written, outFile, artifacts,
                   error, runNo, prevOut>>

\* df.to_csv("clean_sample.csv", index=False)
ToCsv ==
    /\ pc = "to_csv"
    /\ outFile' = to_csv(df)
    /\ written' = TRUE
    /\ pc' = "log_artifact"
    /\ UNCHANGED <<args, store, inputFile, config, df, artifacts, error, runNo,
                   prevOut>>

\* The artifact with type and description exchanged.
Artifact_swapped(a, file) ==
    [name |-> a.output_artifact, type |-> a.output_description,
     description |-> a.output_type, file |-> file]

\* wandb.Artifact(name=, type=, description=) and add_file(out_csv)
Artifact(a, file) ==
    [name |-> a.output_artifact, type |-> a.output_type,
     description |-> a.output_description, file |-> file]

\* artifact_out = wandb.Artifact(...); add_file; run.log_artifact
LogArtifact ==
    /\ pc = "log_artifact"
    /\ artifacts' = Append(artifacts, Artifact(args, outFile))
    /\ pc' = "finish"
    /\ UNCHANGED <<args, store, inputFile, config, df, written, outFile, error,
                   runNo, prevOut>>

\* run.finish()
Finish ==
    /\ pc = "finish"
    /\ pc' = "done"
    /\ UNCHANGED <<args, store, inputFile, config, df, written, outFile,
                   artifacts, error, runNo, prevOut>>

\* The cleaner is run again, with the same bounds, on the artifact the
\* first run logged.
Rerun ==
    /\ pc = "done"
    /\ runNo = 1
    /\ runNo' = 2
    /\ prevOut' = outFile
    /\ inputFile' = artifacts[1].file
    /\ store' = [path |-> "artifacts/clean_sample.csv", exists |-> TRUE]
    /\ pc' = "init"
    /\ config' = NoConfig
    /\ df' = NoDf
    /\ written' = FALSE
    /\ artifacts' = <<>>
    /\ UNCHANGED <<args, outFile, error>>

Next ==
    \/ UseArtifact
    \/ ReadCsv
    \/ PriceFilter
    \/ GeoFilter
    \/ ParseLastReview
    \/ DropNa
    \/ ToCsv
    \/ LogArtifact
    \/ Finish
    \/ Rerun

Spec == Init /\ [][Next]_vars

-----------------------------------------------------------------------------
(* What the claims speak of *)

InHeader(c) == c \in Range(inputFile.header)

InField(i, c) == inputFile.rows[i][ColumnIndex(inputFile.header, c)]

OutField(i, c) == outFile.rows[i][ColumnIndex(outFile.header, c)]

\* A field that is a number within lo..hi, bounds included.
Within(tok, lo, hi) ==
    tok.k = "dec" /\ lo <= ParseFloat(tok) /\ ParseFloat(tok) <= hi

BothCoords == InHeader("longitude") /\ InHeader("latitude")

OneCoord == InHeader("longitude") # InHeader("latitude")

\* The input rows whose price lies within the bounds of the run.
PriceKept ==
    {i \in DOMAIN inputFile.rows :
        Within(InField(i, "price"), args.min_price, args.max_price)}

\* C1: every row of the written file has min_price <= price <= max_price,
\* and the price filter keeps exactly the input rows whose price lies within
\* the bounds, the bounds included (whatever their order).
C1_PriceWithinBounds ==
    /\ written =>
          \A i \in DOMAIN outFile.rows :
             Within(OutField(i, "price"), args.min_price, args.max_price)
    /\ pc = "geo" => Len(df.rows) = Cardinality(PriceKept)

\* A finished run that kept a row priced exactly min_price and dropped a row
\* priced above max_price.
C1_Witness ==
    /\ pc = "done" /\ runNo = 1
    /\ \E i \in DOMAIN outFile.rows :
          ParseFloat(OutField(i, "price")) = args.min_price
    /\ \E i \in DOMAIN inputFile.rows :
          /\ InField(i, "price").k = "dec"
          /\ ParseFloat(InField(i, "price")) > args.max_price

\* C2: with both coordinate columns in the input every written row lies
\* within the NYC bounds; with one of them absent the geo step changes
\* nothing.
C2_GeoBounds ==
    /\ [](written /\ BothCoords =>
             \A i \in DOMAIN outFile.rows :
                /\ Within(OutField(i, "longitude"), LonMin, LonMax)
                /\ Within(OutField(i, "latitude"), LatMin, LatMax))
    /\ [][pc = "geo" /\ ~BothCoords => df' = df /\ pc' = "last_review"]_vars

\* A finished run on an input without longitude that kept a row whose
\* latitude lies above the bound.
C2_Witness ==
    /\ pc = "done" /\ runNo = 1 /\ ~InHeader("longitude") /\ InHeader("latitude")
    /\ \E i \in DOMAIN outFile.rows :
          /\ OutField(i, "latitude").k = "dec"
          /\ ParseFloat(OutField(i, "latitude")) > LatMax

\* C3: no written row has a missing price, latitude or longitude, for the
\* columns that exist.
C3_NoMissingKey ==
    written =>
       \A i \in DOMAIN outFile.rows :
          \A c \in {"price", "latitude", "longitude"} :
             c \in Range(outFile.header) => OutField(i, c) # EmptyTok

\* A finished run on an input with one coordinate column only, in which a
\* row with a price within the bounds had that coordinate missing.
C3_Witness ==
    /\ pc = "done" /\ runNo = 1 /\ OneCoord
    /\ \E i \in PriceKept :
          \E c \in {"latitude", "longitude"} : InHeader(c) /\ InField(i, c) = EmptyTok

\* C4: the parsing of last_review does not fail and leaves the number of
\* rows unchanged, and every last_review of the output is a parsed date or
\* the missing-marker, written as an ISO date or an empty field.
C4_LastReviewParsed ==
    /\ [](written /\ InHeader("last_review") =>
             \A i \in DOMAIN df.rows :
                /\ df.rows[i]["last_review"].k \in {"date", "nat"}
                /\ \/ OutField(i, "last_review") = EmptyTok
                   \/ /\ OutField(i, "last_review").k = "text"
                      /\ OutField(i, "last_review").s = IsoFormat)
    /\ [][pc = "last_review" =>
             pc' = "dropna" /\ Len(df'.rows) = Len(df.rows)]_vars

\* A finished run whose input had an unparseable last_review in a row that
\* is in the output, with the missing-marker.
C4_Witness ==
    /\ pc = "done" /\ runNo = 1 /\ InHeader("last_review")
    /\ Len(outFile.rows) = Len(inputFile.rows)
    /\ \E i \in DOMAIN inputFile.rows :
          /\ InField(i, "last_review") = Text("junk", 0)
          /\ df.rows[i]["last_review"] = NaT

C6_MissingInputAborts ==
    store.path = "" \/ ~store.exists =>
       /\ pc \in {"init", "failed"}
       /\ pc = "failed" => error = "FileNotFoundError"
       /\ df.columns = <<>>
       /\ ~written
       /\ outFile = NoFile
       /\ artifacts = <<>>

\* A run that failed on a path the store gave, which does not exist.
C6_Witness ==
    pc = "failed" /\ error = "FileNotFoundError" /\ store.path # "" /\ ~store.exists

\* C7: a run on an input that has a price column fails for the missing
\* input file only.
C7_OnlyMissingFileFails ==
    pc = "failed" /\ InHeader("price") => error = "FileNotFoundError"

\* The dataset of the output as a sub-sequence of the dataset of the input:
\* rows at increasing positions of the input, equal in every column but
\* last_review.
IsSubsequence(out, in) ==
    \E f \in [DOMAIN out -> DOMAIN in] :
       /\ \A i, j \in DOMAIN out : i < j => f[i] < f[j]
       /\ \A i \in DOMAIN out :
             \A c \in DOMAIN out[i] :
                c # "last_review" => out[i][c] = in[f[i]][c]

\* C8: the written file has the columns of the input, in their order, and
\* its rows are a sub-sequence of the input's rows with every value but
\* last_review unchanged.
C8_Subsequence ==
    written =>
       /\ outFile.header = inputFile.header
       /\ Len(outFile.rows) = Len(df.rows)
       /\ \A i \in DOMAIN outFile.rows : Len(outFile.rows[i]) = Len(inputFile.header)
       /\ df.columns = inputFile.header
       /\ IsSubsequence(df.rows, read_csv(inputFile).rows)

\* A finished run that kept some rows of an input with every column and
\* dropped others.
C8_Witness ==
    /\ pc = "done" /\ runNo = 1 /\ BothCoords /\ InHeader("last_review")
    /\ 0 < Len(outFile.rows) /\ Len(outFile.rows) < Len(inputFile.rows)

\* The order of the statements of go (and the second run after the first).
StageOrder ==
    { <<"init", "read_csv">>, <<"init", "failed">>, <<"read_csv", "price">>,
      <<"price", "geo">>, <<"price", "failed">>, <<"geo", "last_review">>,
      <<"geo", "failed">>, <<"last_review", "dropna">>, <<"dropna", "to_csv">>,
      <<"to_csv", "log_artifact">>, <<"log_artifact", "finish">>,
      <<"finish", "done">>, <<"done", "init">> }

\* C9: the stages follow one another in the order of go; an artifact is
\* logged at most once in a run, after clean_sample.csv was written, holds
\* that file and the name, type and description the caller gave; a run is
\* finished only with its artifact logged.
C9_StageOrder ==
    /\ [](/\ Len(artifacts) <= 1
          /\ written <=> pc \in {"log_artifact", "finish", "done"}
          /\ artifacts # <<>> =>
                /\ pc \in {"finish", "done"}
                /\ artifacts[1].file = outFile
                /\ artifacts[1].name = args.output_artifact
                /\ artifacts[1].type = args.output_type
                /\ artifacts[1].description = args.output_description
          /\ pc = "done" => Len(artifacts) = 1)
    /\ [][pc' # pc => <<pc, pc'>> \in StageOrder]_vars
    /\ [][written' /\ ~written => outFile' = to_csv(df) /\ pc = "to_csv"]_vars

\* A finished first run, its artifact logged.
C9_Witness == pc = "done" /\ runNo = 1 /\ Len(artifacts) = 1 /\ outFile.rows # <<>>

\* C10: the completeness filter removes rows only when exactly one of
\* longitude and latitude is a column.
C10_DropNaRemovesNothing ==
    [][pc = "dropna" /\ ~OneCoord => df'.rows = df.rows /\ pc' = "to_csv"]_vars

\* The completeness filter has run on an input with every key column that
\* had a row with a price within the bounds and a missing longitude, and
\* rows are left.
C10_Witness ==
    /\ pc = "to_csv" /\ runNo = 1 /\ BothCoords
    /\ df.rows # <<>>
    /\ \E i \in PriceKept : InField(i, "longitude") = EmptyTok

====
